---- MODULE Spec2Model ----
(***************************************************************************)
(* A model of declooptor/utils.py: scn_func, distance_law, despeckles,     *)
(* picker, detrend and xcorr2.                                             *)
(*                                                                         *)
(* Numbers.  A float is modelled as a fixed-point integer counting units   *)
(* of 1/Scale, so 1.0 is Scale.  A division rounds to the nearest unit.    *)
(* NaN and Inf are two integers outside the range any computation of the   *)
(* model reaches.  Comparisons against median + k*std are decided exactly  *)
(* (by squaring), so no square root is ever rounded.                       *)
(*                                                                         *)
(* Arrays keep the source's 0-based indices: an n x n matrix is a function *)
(* [0..n-1 -> [0..n-1 -> Int]].                                            *)
(***************************************************************************)
EXTENDS Integers, Sequences, FiniteSets, TLC

\* One unit of the fixed-point representation is 1/Scale (divisible by 1..6).
Scale == 2 * 2 * 3 * 5

NaN == -(10^8)
Inf == 10^8

Abs(x) == IF x < 0 THEN -x ELSE x

\* a / b of two non-negative integers, rounded to the nearest integer
RoundDiv(a, b) == (2 * a + b) \div (2 * b)

\* numpy's x / d on floats: 0/0 is nan, x/0 is inf (x > 0), no error raised
Div(x, d) ==
  IF x = NaN \/ d = NaN THEN NaN
  ELSE IF x = Inf THEN (IF d = Inf THEN NaN ELSE Inf)
  ELSE IF d = Inf THEN 0
  ELSE IF d = 0 THEN (IF x = 0 THEN NaN ELSE Inf)
  ELSE IF (x < 0) = (d < 0) THEN RoundDiv(Abs(x) * Scale, Abs(d))
  ELSE -RoundDiv(Abs(x) * Scale, Abs(d))

Idx(n) == 0 .. (n - 1)

Size(M) == Cardinality(DOMAIN M)

RECURSIVE SumOver(_, _)
\* np.sum of the values f[k], k in the finite set S
SumOver(f, S) ==
  IF S = {} THEN 0
  ELSE LET k == CHOOSE x \in S : TRUE
       IN  f[k] + SumOver(f, S \ {k})

RECURSIVE SeqSum(_)
SeqSum(s) == IF s = <<>> THEN 0 ELSE Head(s) + SeqSum(Tail(s))

RECURSIVE SeqSumSq(_)
SeqSumSq(s) == IF s = <<>> THEN 0 ELSE Head(s) * Head(s) + SeqSumSq(Tail(s))

\* twice np.median(s): the middle value twice, or the sum of the two middle ones
Median2(s) ==
  LET n == Len(s)
      \* rank k (1-based) in sorted order: the value v with fewer than k
      \* values below it and at least k values at or below it
      Ranked(k) == CHOOSE v \in {s[i] : i \in 1..n} :
                     /\ Cardinality({i \in 1..n : s[i] < v}) < k
                     /\ Cardinality({i \in 1..n : s[i] <= v}) >= k
  IN  IF n % 2 = 1 THEN 2 * Ranked((n + 1) \div 2)
      ELSE Ranked(n \div 2) + Ranked(n \div 2 + 1)

(***************************************************************************)
(* The real number  median(s) + k * std(s)  is kept as the integers that   *)
(* determine it: m2 = 2*median, cnt = len, s1 = sum, s2 = sum of squares    *)
(* (np.std is the population deviation sqrt(cnt*s2 - s1^2) / cnt).  A      *)
(* plain number t is Plain(t).                                             *)
(***************************************************************************)
MedStd(s, k) ==
  [m2 |-> Median2(s), k |-> k, cnt |-> Len(s), s1 |-> SeqSum(s), s2 |-> SeqSumSq(s)]

Plain(t) == [m2 |-> 2 * t, k |-> 0, cnt |-> 1, s1 |-> 0, s2 |-> 0]

\* x > t.m2/2 + t.k * sqrt(t.cnt*t.s2 - t.s1^2)/t.cnt, decided exactly
Gt(x, t) ==
  LET L == (2 * x - t.m2) * t.cnt
      R == 2 * t.k
      V == t.cnt * t.s2 - t.s1 * t.s1
  IN  IF R >= 0 THEN L > 0 /\ L * L > R * R * V
      ELSE L > 0 \/ L * L < R * R * V

VARIABLES
  entry,            \* the function the caller invoked
  pc,               \* the position in the code
  err,              \* the exception raised, "none" if none
  A,                \* the matrix scn_func and despeckles mutate in place
  A0,               \* history: the matrix as the caller passed it
  threshold,        \* scn_func: its threshold argument
  keep,             \* scn_func: keep[i] = 1 (active) or 0 (inactive)
  iter,             \* scn_func: completed iterations
  th2,              \* despeckles: its th2 argument
  dist,             \* despeckles: dist[nw], the values collected by the first pass
  nw, j,            \* despeckles: the second pass's loop indices
  n_speckles,       \* despeckles: the outlier counter
  outlier,          \* despeckles: the outlier coordinates, in order
  y,                \* distance_law's result (detrend's y)
  y_savgol,         \* detrend: the smoothed distance law
  threshold_vector, \* detrend: median - 2 std of the column sums
  poor_indices,     \* detrend: the poor bins
  detrended,        \* detrend: the result matrix
  probas, thres,    \* picker: its arguments
  candidate_p,      \* picker: the boolean candidate mask
  labelled_mat,     \* picker: the labelled mask
  num_features,     \* picker: the number of labels
  ff,               \* picker: the loop index over the labels
  ijs,              \* picker: one row per label, then the result
  remove_p,         \* picker: the labels to drop
  signal, kernel,   \* xcorr2: its arguments
  centered_p,       \* xcorr2: its mode
  out,              \* xcorr2: the result array
  ki, kj            \* xcorr2: the loop indices over the kernel

matVars == <<A, A0, threshold, keep, iter, th2, dist, nw, j, n_speckles, outlier,
             y, y_savgol, threshold_vector, poor_indices, detrended>>
pickVars == <<probas, thres, candidate_p, labelled_mat, num_features, ff, ijs, remove_p>>
xcorrVars == <<signal, kernel, centered_p, out, ki, kj>>
vars == <<entry, pc, err, matVars, pickVars, xcorrVars>>

\* the value of a variable the running function does not use
None == <<>>

MatIdle ==
  /\ A = None /\ A0 = None /\ threshold = None /\ keep = None /\ iter = 0
  /\ th2 = 0 /\ dist = None /\ nw = 0 /\ j = 0 /\ n_speckles = 0 /\ outlier = <<>>
  /\ y = None /\ y_savgol = None /\ threshold_vector = None /\ poor_indices = {}
  /\ detrended = None

PickIdle ==
  /\ probas = None /\ thres = 0 /\ candidate_p = None /\ labelled_mat = None
  /\ num_features = 0 /\ ff = 0 /\ ijs = <<>> /\ remove_p = None

XcorrIdle ==
  /\ signal = None /\ kernel = None /\ centered_p = FALSE /\ out = None
  /\ ki = 0 /\ kj = 0

(***************************************************************************)
(* scn_func(A, threshold)                                                  *)
(***************************************************************************)
n_iterations == 10

RowSum(M, r) == SumOver(M[r], DOMAIN M[r])
ColSum(M, c) == SumOver([r \in DOMAIN M |-> M[r][c]], DOMAIN M)

Active(kp) == {i \in DOMAIN kp : kp[i] > 0}      \* indices1

NanToZero(M) == [r \in DOMAIN M |-> [c \in DOMAIN M[r] |->
                   IF M[r][c] = NaN THEN 0 ELSE M[r][c]]]

\* lines 30-33: every column's active rows divided by their sum, its inactive
\* rows zeroed, then nan replaced by 0
ColPass(M, kp) ==
  NanToZero([r \in DOMAIN M |-> [c \in DOMAIN M[r] |->
     IF r \in Active(kp)
     THEN Div(M[r][c], SumOver([q \in DOMAIN M |-> M[q][c]], Active(kp)))
     ELSE 0]])

\* the row pass with line 37 (A[i, indices2[0]] = 0) left out
RowPassNoZero(M, kp) ==
  NanToZero([r \in DOMAIN M |-> [c \in DOMAIN M[r] |->
     IF c \in Active(kp)
     THEN Div(M[r][c], SumOver(M[r], Active(kp)))
     ELSE M[r][c]]])

\* lines 35-38: the same over the rows, on the updated matrix
RowPass(M, kp) ==
  NanToZero([r \in DOMAIN M |-> [c \in DOMAIN M[r] |->
     IF c \in Active(kp)
     THEN Div(M[r][c], SumOver(M[r], Active(kp)))
     ELSE 0]])

\* lines 16-27
ScnStart ==
  /\ pc = "scn_func"
  /\ keep' = [i \in DOMAIN A |-> IF Gt(RowSum(A, i), threshold) THEN 1 ELSE 0]
  /\ iter' = 0
  /\ pc' = "scn_cols"
  /\ UNCHANGED <<entry, err, A, A0, threshold, th2, dist, nw, j, n_speckles, outlier,
                 y, y_savgol, threshold_vector, poor_indices, detrended,
                 pickVars, xcorrVars>>

ScnCols ==
  /\ pc = "scn_cols"
  /\ A' = ColPass(A, keep)
  /\ pc' = "scn_rows"
  /\ UNCHANGED <<entry, err, A0, threshold, keep, iter, th2, dist, nw, j, n_speckles,
                 outlier, y, y_savgol, threshold_vector, poor_indices, detrended,
                 pickVars, xcorrVars>>

ScnRows ==
  /\ pc = "scn_rows"
  /\ A' = RowPass(A, keep)
  /\ iter' = iter + 1
  /\ pc' = IF iter + 1 < n_iterations THEN "scn_cols"
           ELSE IF entry = "detrend" THEN "despeckles" ELSE "done"
  /\ UNCHANGED <<entry, err, A0, threshold, keep, th2, dist, nw, j, n_speckles,
                 outlier, y, y_savgol, threshold_vector, poor_indices, detrended,
                 pickVars, xcorrVars>>

(***************************************************************************)
(* Input matrices: n x n, every cell `base` except at most maxHot cells,   *)
(* which take a value of hotVals.                                          *)
(***************************************************************************)
MaxN == 3
MaxHot == 2

Cells(n) == Idx(n) \X Idx(n)

Sparse(n, base, hotVals, maxHot) ==
  { [r \in Idx(n) |-> [c \in Idx(n) |->
       IF <<r, c>> \in DOMAIN f THEN f[<<r, c>>] ELSE base]] :
    f \in UNION { [S -> hotVals] :
                  S \in {T \in SUBSET Cells(n) : Cardinality(T) <= maxHot} } }

InitScn ==
  /\ entry = "scn_func" /\ pc = "scn_func" /\ err = "none"
  /\ \E n \in 1 .. MaxN : A \in Sparse(n, 0, {1, 2}, MaxHot)
  /\ A0 = A
  /\ threshold \in {Plain(0), Plain(1)}
  /\ keep = None /\ iter = 0
  /\ th2 = 0 /\ dist = None /\ nw = 0 /\ j = 0 /\ n_speckles = 0 /\ outlier = <<>>
  /\ y = None /\ y_savgol = None /\ threshold_vector = None /\ poor_indices = {}
  /\ detrended = None
  /\ PickIdle /\ XcorrIdle

NextScn == ScnStart \/ ScnCols \/ ScnRows

SpecScn == InitScn /\ [][NextScn]_vars

\* C8: in scn_func the active/inactive status is fixed once from the input row
\* sums (active iff row sum > threshold); after every completed iteration, and in
\* the matrix returned after the 10th, every entry whose row index or column
\* index is inactive is exactly 0.
ScnInactiveZero ==
  (entry = "scn_func" /\ pc # "scn_func") =>
     /\ \A i \in DOMAIN A0 : (keep[i] = 1) <=> Gt(RowSum(A0, i), threshold)
     /\ \A i \in DOMAIN A0 : keep[i] \in {0, 1}
     /\ (pc = "done") <=> (iter = n_iterations /\ pc # "scn_rows")
     /\ (iter >= 1 /\ pc \in {"scn_cols", "done"}) =>
          \A r \in DOMAIN A : \A c \in DOMAIN A :
             (keep[r] = 0 \/ keep[c] = 0) => A[r][c] = 0

\* scn_func has returned a matrix in which an entry of an active row and an
\* inactive column, non-zero in the input, was zeroed
ScnWitness ==
  /\ entry = "scn_func" /\ pc = "done" /\ iter = n_iterations
  /\ \E r \in DOMAIN A : \E c \in DOMAIN A :
        keep[r] = 1 /\ keep[c] = 0 /\ A0[r][c] # 0 /\ A[r][c] = 0

(***************************************************************************)
(* despeckles(A, th2)                                                      *)
(***************************************************************************)
\* the values A[j, j + d], j = 0, 1, ..., in that order (lines 85-88)
UpperDiag(M, d) == [k \in 1 .. (Size(M) - d) |-> M[k - 1][k - 1 + d]]

\* the criterion recomputed from the matrix as it is now
CriterionLive(d) == MedStd(UpperDiag(A, d), th2)

\* np.median(dist[nw]) + th2 * np.std(dist[nw])  (lines 96 and 101)
Criterion(d) == MedStd(dist[d], th2)

\* x >= median + k std, for k >= 0
Ge(x, t) ==
  LET L == (2 * x - t.m2) * t.cnt
      R == 2 * t.k
      V == t.cnt * t.s2 - t.s1 * t.s1
  IN  L >= 0 /\ L * L >= R * R * V

\* the comparison of lines 96 and 101
Exceeds(x, t) == Gt(x, t)

SetCell(M, r, c, v) == [M EXCEPT ![r] = [M[r] EXCEPT ![c] = v]]

\* lines 78-89: the first pass copies every upper diagonal's values into dist
DespecklesFirstPass ==
  /\ pc = "despeckles"
  /\ n_speckles' = 0
  /\ outlier' = <<>>
  /\ dist' = [d \in DOMAIN A |-> UpperDiag(A, d)]
  /\ nw' = 0 /\ j' = 0
  /\ pc' = "despeckle_loop"
  /\ UNCHANGED <<entry, err, A, A0, threshold, keep, iter, th2,
                 y, y_savgol, threshold_vector, poor_indices, detrended,
                 pickVars, xcorrVars>>

\* lines 92-104: one iteration of the second pass, at distance nw and row j
DespecklesStep ==
  /\ pc = "despeckle_loop"
  /\ LET n1 == Size(A)
         lp == j + nw
         kp == j - nw
         hitU == lp < n1 /\ Exceeds(A[j][lp], Criterion(nw))
         A1 == IF hitU THEN SetCell(A, j, lp, 0) ELSE A
         hitL == kp >= 0 /\ Exceeds(A1[j][kp], Criterion(nw))
         last == (j = n1 - 1 /\ nw = n1 - 1)
     IN  /\ A' = IF hitL THEN SetCell(A1, j, kp, 0) ELSE A1
         /\ n_speckles' = n_speckles + (IF hitU THEN 1 ELSE 0) + (IF hitL THEN 1 ELSE 0)
         /\ outlier' = outlier \o (IF hitU THEN << <<j, lp>> >> ELSE <<>>)
                               \o (IF hitL THEN << <<j, kp>> >> ELSE <<>>)
         /\ j' = IF j = n1 - 1 THEN 0 ELSE j + 1
         /\ nw' = IF j = n1 - 1 /\ ~last THEN nw + 1 ELSE nw
         /\ pc' = IF ~last THEN "despeckle_loop"
                  ELSE IF entry = "detrend" THEN "distance_law" ELSE "done"
  /\ UNCHANGED <<entry, err, A0, threshold, keep, iter, th2, dist,
                 y, y_savgol, threshold_vector, poor_indices, detrended,
                 pickVars, xcorrVars>>

DespeckleTh2 == 10

InitDespeckles ==
  /\ entry = "despeckles" /\ pc = "despeckles" /\ err = "none"
  /\ \E n \in 1 .. MaxN : A \in Sparse(n, 1, {0, 2}, MaxHot)
  /\ A0 = A
  /\ th2 \in {0, 1, DespeckleTh2}
  /\ threshold = None /\ keep = None /\ iter = 0
  /\ dist = None /\ nw = 0 /\ j = 0 /\ n_speckles = 0 /\ outlier = <<>>
  /\ y = None /\ y_savgol = None /\ threshold_vector = None /\ poor_indices = {}
  /\ detrended = None
  /\ PickIdle /\ XcorrIdle

NextDespeckles == DespecklesFirstPass \/ DespecklesStep

SpecDespeckles == InitDespeckles /\ [][NextDespeckles]_vars

\* C5: in the second pass of despeckles, the cell visited at distance nw is zeroed
\* exactly when its value exceeds median + th2 * std of the values the INPUT matrix
\* held at that distance, whatever was zeroed before (at this or an earlier
\* distance); no other cell changes.
DespecklesCriterionFixed ==
  [][ (entry = "despeckles" /\ pc = "despeckle_loop") =>
        LET t0 == MedStd(UpperDiag(A0, nw), th2)
            visited(c) == (c = j + nw \/ c = j - nw)
        IN  /\ dist = [d \in DOMAIN A0 |-> UpperDiag(A0, d)]
            /\ \A r \in DOMAIN A : \A c \in DOMAIN A :
                 A'[r][c] = IF r = j /\ visited(c) /\ Gt(A[r][c], t0)
                            THEN 0 ELSE A[r][c] ]_vars

\* the second pass is over, and a cell was kept although it exceeds the criterion
\* recomputed from the clipped matrix: an earlier clipping at the same distance
\* would have changed its fate
DespecklesCriterionWitness ==
  /\ entry = "despeckles" /\ pc = "done"
  /\ \E d \in DOMAIN A : \E r \in DOMAIN A :
        /\ r + d < Size(A)
        /\ A[r][r + d] # 0
        /\ Gt(A[r][r + d], MedStd(UpperDiag(A, d), th2))
        /\ \E q \in DOMAIN A : q < r /\ <<q, q + d>> \in {outlier[k] : k \in DOMAIN outlier}

Range(s) == {s[k] : k \in DOMAIN s}

\* C10: despeckles reports no cell twice (not even on the main diagonal): the
\* outlier list has no duplicate, its length is the outlier count, the cells of
\* the list are exactly the cells whose value changed, each is now 0, and every
\* other cell keeps its input value.
DespecklesNoDuplicate ==
  (entry = "despeckles" /\ pc \in {"despeckle_loop", "done"}) =>
     /\ \A a \in DOMAIN outlier : \A b \in DOMAIN outlier :
           outlier[a] = outlier[b] => a = b
     /\ n_speckles = Len(outlier)
     /\ n_speckles = Cardinality({rc \in Cells(Size(A)) : A[rc[1]][rc[2]] # A0[rc[1]][rc[2]]})
     /\ \A rc \in Cells(Size(A)) :
           IF rc \in Range(outlier)
           THEN A[rc[1]][rc[2]] = 0 /\ A0[rc[1]][rc[2]] # 0
           ELSE A[rc[1]][rc[2]] = A0[rc[1]][rc[2]]

\* despeckles has returned after clipping a cell of the main diagonal (where lp
\* and kp address the same cell) and a cell off it
DespecklesNoDuplicateWitness ==
  /\ entry = "despeckles" /\ pc = "done"
  /\ \E r \in DOMAIN A : <<r, r>> \in Range(outlier)
  /\ \E rc \in Range(outlier) : rc[1] # rc[2]

(***************************************************************************)
(* distance_law(matrix)                                                    *)
(***************************************************************************)
\* np.diag(matrix, +d): the entries (i, i + d)
DiagAbove(M, d) == [k \in 1 .. (Size(M) - d) |-> M[k - 1][k - 1 + d]]

\* np.diag(matrix, -d): the entries (i, i - d), i = d .. n - 1  (line 73)
DiagBelow(M, d) == [k \in 1 .. (Size(M) - d) |-> M[d + k - 1][k - 1]]

\* np.mean of a non-empty sequence
Mean(s) ==
  IF SeqSum(s) >= 0 THEN RoundDiv(SeqSum(s), Len(s))
  ELSE -RoundDiv(-SeqSum(s), Len(s))

\* lines 70-74
DistanceLaw ==
  /\ pc = "distance_law"
  /\ y' = [d \in DOMAIN A |-> Mean(DiagBelow(A, d))]
  /\ pc' = IF entry = "detrend" THEN "smooth" ELSE "done"
  /\ UNCHANGED <<entry, err, A, A0, threshold, keep, iter, th2, dist, nw, j,
                 n_speckles, outlier, y_savgol, threshold_vector, poor_indices,
                 detrended, pickVars, xcorrVars>>

Times(M, k) == [r \in DOMAIN M |-> [c \in DOMAIN M[r] |-> k * M[r][c]]]

\* the docstring's matrix (lines 60-65): every row is [2, 3, 4]
ExampleMatrix == [r \in Idx(3) |-> [c \in Idx(3) |-> (c + 2) * Scale]]

InitDistanceLaw ==
  /\ entry = "distance_law" /\ pc = "distance_law" /\ err = "none"
  /\ \/ \E n \in 1 .. MaxN : \E M \in Sparse(n, 1, {0, 2, 3}, MaxHot) :
           A = Times(M, Scale)
     \/ A = ExampleMatrix
  /\ A0 = A
  /\ threshold = None /\ keep = None /\ iter = 0
  /\ th2 = 0 /\ dist = None /\ nw = 0 /\ j = 0 /\ n_speckles = 0 /\ outlier = <<>>
  /\ y = None /\ y_savgol = None /\ threshold_vector = None /\ poor_indices = {}
  /\ detrended = None
  /\ PickIdle /\ XcorrIdle

NextDistanceLaw == DistanceLaw

SpecDistanceLaw == InitDistanceLaw /\ [][NextDistanceLaw]_vars

\* C9: distance_law returns a vector of length n whose entry d is the mean of the
\* n - d entries (i, i - d), d <= i <= n - 1 (entry 0: the main diagonal), and does
\* not modify its input; for the matrix with every row [2, 3, 4] it is
\* [3.0, 2.5, 2.0].
DistanceLawMeans ==
  (entry = "distance_law" /\ pc = "done") =>
     LET n == Size(A0)
     IN  /\ DOMAIN y = Idx(n)
         /\ \A d \in Idx(n) :
               y[d] * (n - d) = SumOver([i \in d .. (n - 1) |-> A0[i][i - d]], d .. (n - 1))
         /\ A = A0
         /\ A0 = ExampleMatrix =>
               (y[0] = 3 * Scale /\ 2 * y[1] = 5 * Scale /\ y[2] = 2 * Scale)

\* distance_law has returned for the docstring's matrix, which is not symmetric
DistanceLawWitness ==
  /\ entry = "distance_law" /\ pc = "done" /\ A0 = ExampleMatrix
  /\ 2 * y[1] = 5 * Scale

(***************************************************************************)
(* detrend(matrix)                                                         *)
(*                                                                         *)
(* scn_func works in place, so detrend's matrix and matscn are the one     *)
(* array A.  savgol_filter is scipy's: with mode 'interp' (the default) it *)
(* raises ValueError when window_length exceeds the length of its input;   *)
(* otherwise its result, a polynomial fit, may be above, at or below zero, *)
(* and is modelled by a choice among a few shifts of its input.            *)
(***************************************************************************)
window_length == 17

ColSums(M) == [k \in 1 .. Size(M) |-> ColSum(M, k - 1)]

\* line 166-168: np.median(sums) - 2.0 * np.std(sums)
ThresholdVector(M) == MedStd(ColSums(M), -2)

\* line 169: the columns whose sum is <= threshold_vector
PoorIndices(M) == {c \in DOMAIN M : ~Gt(ColSum(M, c), ThresholdVector(M))}

SavgolResults(v) ==
  { [d \in DOMAIN v |-> v[d] - e] : e \in {0, v[Size(v) \div 2]} }

\* lines 185-186: nan becomes 1.0, then every negative value becomes 1.0
Neutral(M) == [r \in DOMAIN M |-> [c \in DOMAIN M[r] |->
                 IF M[r][c] = NaN THEN Scale
                 ELSE IF M[r][c] # Inf /\ M[r][c] < 0 THEN Scale
                 ELSE M[r][c]]]

\* the refill with line 189 (the columns) left out
RefillRows(M, P) == [r \in DOMAIN M |-> [c \in DOMAIN M[r] |->
                       IF r \in P THEN Scale ELSE M[r][c]]]

\* lines 188-189: the rows, then the columns, of the poor bins become 1.0
Refill(M, P) == [r \in DOMAIN M |-> [c \in DOMAIN M[r] |->
                   IF r \in P \/ c \in P THEN Scale ELSE M[r][c]]]

\* lines 166-170, up to the call of scn_func(matrix, threshold_vector)
DetrendStart ==
  /\ pc = "detrend"
  /\ threshold_vector' = ThresholdVector(A)
  /\ poor_indices' = PoorIndices(A)
  /\ threshold' = ThresholdVector(A)
  /\ pc' = "scn_func"
  /\ UNCHANGED <<entry, err, A, A0, keep, iter, th2, dist, nw, j, n_speckles,
                 outlier, y, y_savgol, detrended, pickVars, xcorrVars>>

\* lines 174-175
DetrendSmooth ==
  /\ pc = "smooth"
  /\ y' = [d \in DOMAIN y |-> IF y[d] = NaN THEN 0 ELSE y[d]]
  /\ IF window_length > Size(y)
     THEN /\ err' = "ValueError"
          /\ pc' = "raised"
          /\ UNCHANGED y_savgol
     ELSE /\ y_savgol' \in SavgolResults(y')
          /\ pc' = "divide"
          /\ UNCHANGED err
  /\ UNCHANGED <<entry, A, A0, threshold, keep, iter, th2, dist, nw, j, n_speckles,
                 outlier, threshold_vector, poor_indices, detrended,
                 pickVars, xcorrVars>>

\* lines 177-184
DetrendDivide ==
  /\ pc = "divide"
  /\ detrended' = [r \in DOMAIN A |-> [c \in DOMAIN A |->
                     Div(A[r][c], y_savgol[Abs(c - r)])]]
  /\ pc' = "neutral"
  /\ UNCHANGED <<entry, err, A, A0, threshold, keep, iter, th2, dist, nw, j,
                 n_speckles, outlier, y, y_savgol, threshold_vector, poor_indices,
                 pickVars, xcorrVars>>

\* lines 185-186
DetrendNeutral ==
  /\ pc = "neutral"
  /\ detrended' = Neutral(detrended)
  /\ pc' = "refill"
  /\ UNCHANGED <<entry, err, A, A0, threshold, keep, iter, th2, dist, nw, j,
                 n_speckles, outlier, y, y_savgol, threshold_vector, poor_indices,
                 pickVars, xcorrVars>>

\* lines 188-190
DetrendRefill ==
  /\ pc = "refill"
  /\ detrended' = Refill(detrended, poor_indices)
  /\ pc' = "done"
  /\ UNCHANGED <<entry, err, A, A0, threshold, keep, iter, th2, dist, nw, j,
                 n_speckles, outlier, y, y_savgol, threshold_vector, poor_indices,
                 pickVars, xcorrVars>>

(***************************************************************************)
(* Inputs of detrend: the small matrices, and matrices of window_length    *)
(* bins and more: a band decaying with the distance to the diagonal, in    *)
(* which the bins of `weak` are emptied: their columns, their rows or both.*)
(***************************************************************************)
MaxExtra == 0

Band(n, weak, rows, cols) ==
  [r \in Idx(n) |-> [c \in Idx(n) |->
     IF (rows /\ r \in weak) \/ (cols /\ c \in weak) THEN 0
     ELSE IF Abs(r - c) >= 3 THEN 1 ELSE 4 - Abs(r - c)]]

InitDetrend ==
  /\ entry = "detrend" /\ pc = "detrend" /\ err = "none"
  /\ \/ \E n \in 1 .. MaxN : A \in Sparse(n, 1, {0, 3}, MaxHot)
     \/ \E n \in window_length .. (window_length + MaxExtra) :
        \E weak \in SUBSET {0, 5, n - 1} :
        \E rows \in BOOLEAN : \E cols \in BOOLEAN :
           A = Band(n, weak, rows, cols)
  /\ A0 = A
  /\ th2 = DespeckleTh2
  /\ threshold = None /\ keep = None /\ iter = 0
  /\ dist = None /\ nw = 0 /\ j = 0 /\ n_speckles = 0 /\ outlier = <<>>
  /\ y = None /\ y_savgol = None /\ threshold_vector = None /\ poor_indices = {}
  /\ detrended = None
  /\ PickIdle /\ XcorrIdle

NextDetrend ==
  \/ DetrendStart
  \/ ScnStart \/ ScnCols \/ ScnRows
  \/ DespecklesFirstPass \/ DespecklesStep
  \/ DistanceLaw
  \/ DetrendSmooth \/ DetrendDivide \/ DetrendNeutral \/ DetrendRefill

SpecDetrend == InitDetrend /\ [][NextDetrend]_vars

\* C6: in the matrix detrend returns, every poor bin (column sum of the raw input
\* at or below median - 2 std of the column sums) has its whole row and its whole
\* column equal to 1.0, whatever the division, the nan replacement and the clamp
\* of the negatives left there.
DetrendPoorBinsNeutral ==
  (entry = "detrend" /\ pc = "done") =>
     \A p \in DOMAIN A0 :
        ~Gt(ColSum(A0, p), MedStd(ColSums(A0), -2)) =>
           \A c \in DOMAIN A0 : detrended[p][c] = Scale /\ detrended[c][p] = Scale

\* detrend has returned; a poor bin has, in its column, a cell of a row that is
\* not poor whose value before the refill was not 1.0, and one in its row too
DetrendPoorBinsWitness ==
  /\ entry = "detrend" /\ pc = "done"
  /\ \E p \in poor_indices : \E q \in DOMAIN A0 \ poor_indices :
        /\ Neutral(<< <<Div(A[q][p], y_savgol[Abs(p - q)])>> >>)[1][1] # Scale
        /\ Neutral(<< <<Div(A[p][q], y_savgol[Abs(p - q)])>> >>)[1][1] # Scale
        /\ detrended[q][p] = Scale

\* C7: detrend returns a (detrended matrix, threshold) pair for every square
\* matrix of non-negative entries of any size n >= 1, and raises no error.
DetrendNeverRaises ==
  entry = "detrend" => (err = "none" /\ pc # "raised")

(***************************************************************************)
(* xcorr2(signal, kernel, centered_p)                                      *)
(***************************************************************************)
Rows(M) == Cardinality(DOMAIN M)
Cols(M) == Cardinality(DOMAIN M[0])

\* the offset with the floor division taken of Mk instead of Mk - 1
CenterOffsetHalf(m) == m \div 2

\* lines 232-233: Ki = (Mk - 1) // 2, Kj = (Nk - 1) // 2
CenterOffset(m) == (m - 1) \div 2

\* the rows (columns) lo .. hi - 1 of the slice  K : Ms - (Mk - 1 - K)
SliceLo(ms, mk, centered) == IF centered THEN CenterOffset(mk) ELSE 0
SliceHi(ms, mk, centered) ==
  IF centered THEN ms - (mk - 1 - CenterOffset(mk)) ELSE ms - mk + 1

\* lines 217-224 and 232-235
XcorrStart ==
  /\ pc = "xcorr2"
  /\ LET Ms == Rows(signal)   Ns == Cols(signal)
         Mk == Rows(kernel)   Nk == Cols(kernel)
     IN  IF Mk > Ms \/ Nk > Ns
         THEN /\ err' = "ValueError"
              /\ pc' = "raised"
              /\ UNCHANGED out
         ELSE /\ out' =
                   IF ~centered_p
                   THEN [r \in Idx(Ms - Mk + 1) |-> [c \in Idx(Ns - Nk + 1) |-> 0]]
                   ELSE [r \in Idx(Ms) |-> [c \in Idx(Ns) |->
                           IF /\ r >= SliceLo(Ms, Mk, TRUE) /\ r < SliceHi(Ms, Mk, TRUE)
                              /\ c >= SliceLo(Ns, Nk, TRUE) /\ c < SliceHi(Ns, Nk, TRUE)
                           THEN 0 ELSE NaN]]
              /\ pc' = "xcorr_loop"
              /\ UNCHANGED err
  /\ ki' = 0 /\ kj' = 0
  /\ UNCHANGED <<entry, signal, kernel, centered_p, matVars, pickVars>>

\* lines 225-230 and 236-241: the kernel cell (ki, kj) times the shifted signal
\* is added to the slice of out
XcorrStep ==
  /\ pc = "xcorr_loop"
  /\ LET Ms == Rows(signal)   Ns == Cols(signal)
         Mk == Rows(kernel)   Nk == Cols(kernel)
         rlo == SliceLo(Ms, Mk, centered_p)   rhi == SliceHi(Ms, Mk, centered_p)
         clo == SliceLo(Ns, Nk, centered_p)   chi == SliceHi(Ns, Nk, centered_p)
         last == (ki = Mk - 1 /\ kj = Nk - 1)
     IN  /\ out' = [r \in DOMAIN out |-> [c \in DOMAIN out[r] |->
                      IF r >= rlo /\ r < rhi /\ c >= clo /\ c < chi
                      THEN out[r][c]
                           + kernel[ki][kj] * signal[ki + (r - rlo)][kj + (c - clo)]
                      ELSE out[r][c]]]
         /\ kj' = IF kj = Nk - 1 THEN 0 ELSE kj + 1
         /\ ki' = IF kj = Nk - 1 /\ ~last THEN ki + 1 ELSE ki
         /\ pc' = IF last THEN "done" ELSE "xcorr_loop"
  /\ UNCHANGED <<entry, err, signal, kernel, centered_p, matVars, pickVars>>

MaxSig == 3

\* an nr x nc array whose cell (r, c) holds a0 + ar * r + ac * c
Ramp(nr, nc, a0, ar, ac) ==
  [r \in Idx(nr) |-> [c \in Idx(nc) |-> a0 + ar * r + ac * c]]

InitXcorr ==
  /\ entry = "xcorr2" /\ pc = "xcorr2" /\ err = "none"
  /\ \E Ms \in 1 .. MaxSig : \E Ns \in 1 .. MaxSig :
     \E s \in {<<1, 3, 1>>, <<0, 1, 5>>, <<2, 0, 0>>} :
        signal = Ramp(Ms, Ns, s[1], s[2], s[3])
  /\ \E Mk \in 1 .. MaxSig : \E Nk \in 1 .. MaxSig :
     \E k \in {<<1, 0, 0>>, <<1, 1, 2>>, <<-1, 2, 1>>} :
        kernel = Ramp(Mk, Nk, k[1], k[2], k[3])
  /\ centered_p \in BOOLEAN
  /\ out = None /\ ki = 0 /\ kj = 0
  /\ MatIdle /\ PickIdle

NextXcorr == XcorrStart \/ XcorrStep

SpecXcorr == InitXcorr /\ [][NextXcorr]_vars

\* the cross-correlation at the valid offset (a, b), as a sum over the kernel
ValidAt(a, b) ==
  LET Mk == Rows(kernel)
      Nk == Cols(kernel)
      term == [pq \in Idx(Mk) \X Idx(Nk) |->
                 kernel[pq[1]][pq[2]] * signal[a + pq[1]][b + pq[2]]]
  IN  SumOver(term, Idx(Mk) \X Idx(Nk))

\* C4: for a kernel no bigger than the signal, xcorr2 in centered mode returns an
\* Ms x Ns array whose cell (Ki + a, Kj + b), Ki = (Mk-1)//2, Kj = (Nk-1)//2, is the
\* valid-mode value at (a, b) for 0 <= a <= Ms-Mk, 0 <= b <= Ns-Nk, and whose every
\* other cell is NaN (never zero); the valid-mode result has shape
\* (Ms-Mk+1, Ns-Nk+1).
XcorrCentered ==
  (entry = "xcorr2" /\ pc = "done") =>
     LET Ms == Rows(signal)   Ns == Cols(signal)
         Mk == Rows(kernel)   Nk == Cols(kernel)
         Ki == (Mk - 1) \div 2
         Kj == (Nk - 1) \div 2
     IN  /\ Mk <= Ms /\ Nk <= Ns
         /\ centered_p =>
              /\ DOMAIN out = Idx(Ms)
              /\ \A r \in Idx(Ms) : DOMAIN out[r] = Idx(Ns)
              /\ \A r \in Idx(Ms) : \A c \in Idx(Ns) :
                    IF /\ r - Ki >= 0 /\ r - Ki <= Ms - Mk
                       /\ c - Kj >= 0 /\ c - Kj <= Ns - Nk
                    THEN out[r][c] = ValidAt(r - Ki, c - Kj)
                    ELSE out[r][c] = NaN
         /\ ~centered_p =>
              /\ DOMAIN out = Idx(Ms - Mk + 1)
              /\ \A a \in Idx(Ms - Mk + 1) :
                    /\ DOMAIN out[a] = Idx(Ns - Nk + 1)
                    /\ \A b \in Idx(Ns - Nk + 1) : out[a][b] = ValidAt(a, b)

\* xcorr2 has returned in centered mode for a kernel with an even side, smaller
\* than the signal: the result has an undefined border and several defined cells
XcorrCenteredWitness ==
  /\ entry = "xcorr2" /\ pc = "done" /\ centered_p
  /\ Rows(kernel) = 2 /\ Rows(signal) = 3 /\ Cols(kernel) = 3 /\ Cols(signal) = 3
  /\ out[2][0] = NaN /\ out[0][1] # NaN /\ out[1][1] # NaN

(***************************************************************************)
(* picker(probas, thres)                                                   *)
(*                                                                         *)
(* A coordinate is a pair <<i, j>>.  The string "NA" the code returns for  *)
(* "no candidate" is the value NA, which is no sequence of coordinates.    *)
(* measurements.label is scipy's: with its default structure it labels the *)
(* 4-connected components of the mask 1, 2, ... in the order in which a    *)
(* row-by-row scan first meets them.                                       *)
(***************************************************************************)
NA == << <<-1, -1>> >>

GridCells(M) == (DOMAIN M) \X (DOMAIN M[0])

\* the positions with probas >= thres
CandidatesOrEqual(M, t) == {rc \in GridCells(M) : M[rc[1]][rc[2]] >= t}

\* line 133: np.where(probas > thres)
Candidates(M, t) == {rc \in GridCells(M) : M[rc[1]][rc[2]] > t}

Adjacent(a, b) == Abs(a[1] - b[1]) + Abs(a[2] - b[2]) = 1

RECURSIVE Grow(_, _)
\* the cells of On that a path of adjacent cells of On joins to a cell of S
Grow(S, On) ==
  LET T == S \cup {c \in On : \E q \in S : Adjacent(q, c)}
  IN  IF T = S THEN S ELSE Grow(T, On)

\* row-major (C) order, the order of np.where and of the labelling scan
Before(a, b) == a[1] < b[1] \/ (a[1] = b[1] /\ a[2] < b[2])

First(S) == CHOOSE a \in S : \A b \in S : a = b \/ Before(a, b)

\* measurements.label(mask): 0 off the mask, else the rank of the component
Label(mask) ==
  LET On == {rc \in GridCells(mask) : mask[rc[1]][rc[2]]}
      root(c) == First(Grow({c}, On))
      roots == {root(c) : c \in On}
  IN  [r \in DOMAIN mask |-> [c \in DOMAIN mask[r] |->
         IF ~mask[r][c] THEN 0
         ELSE Cardinality({q \in roots :
                 q = root(<<r, c>>) \/ Before(q, root(<<r, c>>))})]]

Max(S) == CHOOSE x \in S : \A z \in S : z <= x

\* only the probability range's upper end is checked (line 130-131 left out)
InvalidAbove(M) == \E rc \in GridCells(M) : M[rc[1]][rc[2]] > Scale

\* lines 128-131: np.any(probas > 1) or np.any(probas < 0)
Invalid(M) ==
  \/ \E rc \in GridCells(M) : M[rc[1]][rc[2]] > Scale
  \/ \E rc \in GridCells(M) : M[rc[1]][rc[2]] < 0

\* the first pixel of the label, whatever its probability
PickFirst(K) == First(K)

\* lines 154-157: np.argmax over the label's pixels in row-major order: the
\* first pixel that holds the maximum
PickMax(K) ==
  First({a \in K : probas[a[1]][a[2]] = Max({probas[b[1]][b[2]] : b \in K})})

\* lines 128-131
PickerCheck ==
  /\ pc = "picker"
  /\ IF Invalid(probas)
     THEN err' = "ValueError" /\ pc' = "raised"
     ELSE err' = err /\ pc' = "threshold"
  /\ UNCHANGED <<entry, pickVars, matVars, xcorrVars>>

\* lines 133-143 and 159-161
PickerThreshold ==
  /\ pc = "threshold"
  /\ LET raw_ijs == Candidates(probas, thres)
     IN  IF raw_ijs # {}
         THEN LET I == Max({rc[1] : rc \in raw_ijs})
                  J == Max({rc[2] : rc \in raw_ijs})
                  mask == [r \in 0 .. I |-> [c \in 0 .. J |-> <<r, c>> \in raw_ijs]]
                  nf == Max({Label(mask)[r][c] : r \in 0 .. I, c \in 0 .. J})
              IN  /\ candidate_p' = mask
                  /\ labelled_mat' = Label(mask)
                  /\ num_features' = nf
                  /\ ijs' = [k \in 1 .. nf |-> <<0, 0>>]
                  /\ remove_p' = [k \in 1 .. nf |-> FALSE]
                  /\ ff' = 0
                  /\ pc' = "features"
         ELSE /\ ijs' = NA
              /\ pc' = "done"
              /\ UNCHANGED <<candidate_p, labelled_mat, num_features, remove_p, ff>>
  /\ UNCHANGED <<entry, err, probas, thres, matVars, xcorrVars>>

\* lines 144-157: the iteration for label ff + 1
PickerFeature ==
  /\ pc = "features"
  /\ ff < num_features
  /\ LET label_p == {rc \in GridCells(labelled_mat) :
                        labelled_mat[rc[1]][rc[2]] = ff + 1}
     IN  IF Cardinality({rc \in label_p : candidate_p[rc[1]][rc[2]]}) = 0
         THEN remove_p' = [remove_p EXCEPT ![ff + 1] = TRUE] /\ UNCHANGED ijs
         ELSE IF Cardinality(label_p) = 1
         THEN remove_p' = [remove_p EXCEPT ![ff + 1] = TRUE] /\ UNCHANGED ijs
         ELSE ijs' = [ijs EXCEPT ![ff + 1] = PickMax(label_p)] /\ UNCHANGED remove_p
  /\ ff' = ff + 1
  /\ UNCHANGED <<entry, pc, err, probas, thres, candidate_p, labelled_mat,
                 num_features, matVars, xcorrVars>>

RECURSIVE Keep(_, _)
\* ijs[~remove_p, :]
Keep(s, drop) ==
  IF s = <<>> THEN <<>>
  ELSE (IF Head(drop) THEN <<>> ELSE <<Head(s)>>) \o Keep(Tail(s), Tail(drop))

\* lines 158 and 161
PickerReturn ==
  /\ pc = "features"
  /\ ff = num_features
  /\ ijs' = Keep(ijs, remove_p)
  /\ pc' = "done"
  /\ UNCHANGED <<entry, err, probas, thres, candidate_p, labelled_mat,
                 num_features, ff, remove_p, matVars, xcorrVars>>

(***************************************************************************)
(* Inputs of picker: PickSide x PickSide maps, 0.0 everywhere except at a  *)
(* few cells holding 0.9 or 1.0; the same with one cell out of [0, 1]; and *)
(* two maps with more cells set.  thres is 0.8 (the default) or 0.9.       *)
(***************************************************************************)
PickSide == 3

\* the probability t / 10
Tenths(t) == (t * Scale) \div 10

WithCell(M, rc, v) == SetCell(M, rc[1], rc[2], v)

\* a blob of three cells with its maximum in the middle, and two isolated cells
BlobAndTwoPoints ==
  [r \in Idx(PickSide) |-> [c \in Idx(PickSide) |->
     IF r = 0 /\ c = 1 THEN Tenths(10)
     ELSE IF r = 0 /\ c \in {0, 2} THEN Tenths(9)
     ELSE IF r = 2 /\ c \in {0, 2} THEN Tenths(9)
     ELSE 0]]

\* two blobs of two cells, the maximum of the second one at its second cell
TwoBlobs ==
  [r \in Idx(PickSide) |-> [c \in Idx(PickSide) |->
     IF c = 0 /\ r \in {0, 1} THEN Tenths(10)
     ELSE IF c = 2 /\ r = 1 THEN Tenths(9)
     ELSE IF c = 2 /\ r = 2 THEN Tenths(10)
     ELSE 0]]

InitPicker ==
  /\ entry = "picker" /\ pc = "picker" /\ err = "none"
  /\ \/ probas \in Sparse(PickSide, 0, {Tenths(9), Tenths(10)}, 3)
     \/ probas \in {BlobAndTwoPoints, TwoBlobs}
     \/ \E M \in Sparse(PickSide, 0, {Tenths(9), Tenths(10)}, 2) :
        \E rc \in Cells(PickSide) : \E v \in {Tenths(15), Tenths(-1)} :
           probas = WithCell(M, rc, v)
  /\ thres \in {Tenths(8), Tenths(9)}
  /\ candidate_p = None /\ labelled_mat = None
  /\ num_features = 0 /\ ff = 0 /\ ijs = <<>> /\ remove_p = None
  /\ MatIdle /\ XcorrIdle

NextPicker == PickerCheck \/ PickerThreshold \/ PickerFeature \/ PickerReturn

SpecPicker == InitPicker /\ [][NextPicker]_vars

\* the candidate set {(i, j) : probas[i, j] > thres}
Above == {rc \in GridCells(probas) : probas[rc[1]][rc[2]] > thres}

\* its 4-connected components
Blobs == {Grow({c}, Above) : c \in Above}

\* C1: when at least one value is above thres, picker returns exactly one
\* coordinate per 4-connected component of {(i, j) : probas[i, j] > thres} that
\* has two or more pixels: a pixel of that component holding the component's
\* maximum probability; a component of one pixel contributes no coordinate.
PickerOnePerBlob ==
  (entry = "picker" /\ pc = "done" /\ Above # {}) =>
     LET big == {K \in Blobs : Cardinality(K) >= 2}
     IN  /\ Len(ijs) = Cardinality(big)
         /\ \A K \in big : Cardinality({k \in DOMAIN ijs : ijs[k] \in K}) = 1
         /\ \A k \in DOMAIN ijs : \E K \in big :
               /\ ijs[k] \in K
               /\ \A b \in K : probas[b[1]][b[2]] <= probas[ijs[k][1]][ijs[k][2]]

\* picker has returned the single coordinate of a blob of three pixels, which is
\* not the blob's first pixel, and has dropped two isolated pixels
PickerOnePerBlobWitness ==
  /\ entry = "picker" /\ pc = "done"
  /\ Cardinality({K \in Blobs : Cardinality(K) = 1}) = 2
  /\ Len(ijs) = 1
  /\ \E K \in Blobs : Cardinality(K) = 3 /\ ijs[1] \in K /\ ijs[1] # First(K)

\* C2: picker returns the sentinel "NA" if and only if no position has a value
\* strictly greater than thres; when a candidate exists it returns a sequence
\* of coordinates (of length zero when every component is dropped), never "NA".
PickerSentinel ==
  (entry = "picker" /\ pc = "done") =>
     LET none == \A rc \in GridCells(probas) : ~(probas[rc[1]][rc[2]] > thres)
     IN  /\ (ijs = NA) <=> none
         /\ ~none => \A k \in DOMAIN ijs : ijs[k] \in GridCells(probas)

\* picker has returned a sequence of length zero although a value equal to thres
\* and a (single, isolated) value above thres exist
PickerSentinelWitness ==
  /\ entry = "picker" /\ pc = "done"
  /\ ijs = <<>>
  /\ Above # {}
  /\ \E rc \in GridCells(probas) : probas[rc[1]][rc[2]] = thres

\* C3: if a value of probas is greater than 1 or less than 0, picker raises its
\* input-validation error before thresholding or labelling and returns nothing;
\* if every value is in [0, 1] it raises no error.
PickerRejects ==
  entry = "picker" =>
     LET bad == \E rc \in GridCells(probas) :
                   probas[rc[1]][rc[2]] > Scale \/ probas[rc[1]][rc[2]] < 0
     IN  /\ bad => /\ pc \in {"picker", "raised"}
                   /\ candidate_p = None /\ labelled_mat = None /\ ijs = <<>>
         /\ (pc = "raised") <=> (err = "ValueError")
         /\ ~bad => err = "none"

\* picker has raised for a map whose only value out of range is below 0
PickerRejectsWitness ==
  /\ entry = "picker" /\ pc = "raised" /\ err = "ValueError"
  /\ \E rc \in GridCells(probas) : probas[rc[1]][rc[2]] < 0
  /\ \A rc \in GridCells(probas) : probas[rc[1]][rc[2]] <= Scale

====
